---- MODULE Spec2Model ----
(***************************************************************************)
(* Spelling-bee drill: the words table, the per-(learner, word) progress   *)
(* store with its spaced-repetition update, the next-word selection and    *)
(* the per-learner session mapping of src/main.py.                          *)
(*                                                                         *)
(* Time is counted in minutes.  The program stores datetime.isoformat()    *)
(* strings; the model keeps the instant itself (a number of minutes).      *)
(* A spelling is a sequence of one-character strings.                      *)
(***************************************************************************)
EXTENDS Integers, Sequences, FiniteSets, TLC

VARIABLES
    words,               \* the words table (rows in id order)
    user_word_progress,  \* the user_word_progress table (rows in id order)
    session_state,       \* the module-global dict session_state
    clock,               \* what datetime.now() returns
    backend,             \* "remote" (conn is set) or "local" (db is set)
    th,                  \* per request thread: position and local variables
    call_history         \* history: per (learner, word), the number of
                         \* update_progress calls completed (calls) and the
                         \* number of them with correct = True since the
                         \* last one with correct = False (run)

vars == <<words, user_word_progress, session_state, clock, backend, th, call_history>>

-----------------------------------------------------------------------------
(* Bounds of the model *)

\* update_progress calls made in a behaviour of SpecProgress
MaxAttempts == 6
\* the latest instant a behaviour reaches, in minutes
MaxClock == 5
\* the latest instant a behaviour of SpecReview reaches, in minutes
MaxWait == 60
\* the longest word jumble_word is called with in a behaviour of
\* SpecFunctions
MaxLen == 3
\* rows of user_word_progress in a behaviour of SpecProgress
MaxRecords == 2
\* update_progress calls made through check_answer in a behaviour of Spec
MaxDrillAttempts == 1
\* learners with a session in a behaviour of Spec
MaxSessions == 2
\* update_progress calls made in a behaviour of SpecConc
MaxConcAttempts == 3
MaxTotal == 50
MaxInProgress == 2

Min(a, b) == IF a <= b THEN a ELSE b
Max(a, b) == IF a >= b THEN a ELSE b

-----------------------------------------------------------------------------
(* timedelta, in minutes *)

minutes(n) == n
hours(n) == 60 * n
days(n) == 24 * hours(n)
weeks(n) == 7 * days(n)

-----------------------------------------------------------------------------
(* The word catalog (module words) and the words table *)

W_go == <<"g", "o">>
W_ax == <<"a", "x">>
W_axe == <<"a", "x", "e">>
W_be == <<"b", "e">>
W_Aks == <<"A", "k", "s">>

\* A catalog item: a plain string, or a list [primary, alternate, ...]
StrItem(w) == [is_list |-> FALSE, spellings |-> <<w>>]
ListItem(ws) == [is_list |-> TRUE, spellings |-> ws]

ONE_BEE == <<StrItem(W_go), ListItem(<<W_ax, W_axe, W_Aks>>)>>
TWO_BEE == <<StrItem(W_be)>>
THREE_BEE == <<>>

\* Mutant of FlattenItem: an alternate names itself as its primary word
FlattenItemOwnPrimary(item) ==
    IF item.is_list
    THEN LET primary == item.spellings[1]
             alternates == SubSeq(item.spellings, 2, Len(item.spellings))
         IN  <<[word |-> primary, alternates |-> alternates,
                is_primary |-> TRUE, primary_word |-> <<>>]>>
             \o [i \in 1..Len(alternates) |->
                   [word |-> alternates[i], alternates |-> <<>>,
                    is_primary |-> FALSE, primary_word |-> alternates[i]]]
    ELSE <<[word |-> item.spellings[1], alternates |-> <<>>,
            is_primary |-> TRUE, primary_word |-> <<>>]>>

\* One item of flatten_word_list's loop.  A primary entry has no
\* "primary_word" key; its readers use .get("primary_word", ""), the empty
\* string <<>> here.
FlattenItem(item) ==
    IF item.is_list
    THEN LET primary == item.spellings[1]
             alternates == SubSeq(item.spellings, 2, Len(item.spellings))
         IN  <<[word |-> primary, alternates |-> alternates,
                is_primary |-> TRUE, primary_word |-> <<>>]>>
             \o [i \in 1..Len(alternates) |->
                   [word |-> alternates[i], alternates |-> <<>>,
                    is_primary |-> FALSE, primary_word |-> primary]]
    ELSE <<[word |-> item.spellings[1], alternates |-> <<>>,
            is_primary |-> TRUE, primary_word |-> <<>>]>>

RECURSIVE flatten_word_list(_)
flatten_word_list(word_list) ==
    IF word_list = <<>> THEN <<>>
    ELSE FlattenItem(Head(word_list)) \o flatten_word_list(Tail(word_list))

\* The mw_data directory: it exists or not, and holds at most one JSON file
\* per primary spelling.  A file is <<>> (absent) or <<object>>; a key of an
\* object is <<>> (absent) or <<value>>.
FileNames == {W_go, W_ax, W_be}

EmptyObject ==
    [shortdef |-> <<>>, functional_label |-> <<>>, pronunciation |-> <<>>,
     has_audio |-> <<>>, audio_url |-> <<>>, is_inflection |-> <<>>,
     base_word |-> <<>>]
FullObject ==
    [shortdef |-> << <<"sense one", "sense two">> >>,
     functional_label |-> <<"verb">>, pronunciation |-> <<"pron">>,
     has_audio |-> <<TRUE>>, audio_url |-> <<"url">>,
     is_inflection |-> <<FALSE>>, base_word |-> <<>>]
InflectionObject ==
    [shortdef |-> << <<"sense">> >>, functional_label |-> <<>>,
     pronunciation |-> <<>>, has_audio |-> <<FALSE>>, audio_url |-> <<>>,
     is_inflection |-> <<TRUE>>, base_word |-> <<"base">>]
JsonFiles == {<<>>, <<EmptyObject>>, <<FullObject>>, <<InflectionObject>>}
MwDataDirs == [exists : BOOLEAN, files : [FileNames -> JsonFiles]]

\* The directory the program is started with in Spec, SpecProgress,
\* SpecReview, SpecConc and SpecFunctions
MwDataAtStartup ==
    [exists |-> TRUE,
     files |-> [name \in FileNames |->
                  IF name = W_go THEN <<FullObject>>
                  ELSE IF name = W_ax THEN <<InflectionObject>> ELSE <<>>]]

\* dict.get(key, default) on an object's key
Get(value, default) == IF value = <<>> THEN default ELSE value[1]

\* sep.join(parts), a string being the sequence of its pieces
RECURSIVE join(_, _)
join(sep, parts) ==
    IF parts = <<>> THEN <<>>
    ELSE IF Len(parts) = 1 THEN parts[1]
    ELSE parts[1] \o <<sep>> \o join(sep, Tail(parts))

\* definition_parts joined (the bullet separator is written " * "):
\* "(label of base)" for an inflection with a base word, then the short
\* definitions
Definition(mw) ==
    LET inflection ==
            IF Get(mw.is_inflection, FALSE) /\ Get(mw.base_word, "") # ""
            THEN << <<"(", Get(mw.functional_label, "form"), " of ",
                      mw.base_word[1], ")">> >>
            ELSE <<>>
        shortdef == Get(mw.shortdef, <<>>)
    IN  join(" * ", inflection \o [i \in 1..Len(shortdef) |-> <<shortdef[i]>>])

\* f"audio/{tier}/{word}.mp3"
AudioFileLocal(level, word) ==
    <<"audio/", <<"one_bee", "two_bee", "three_bee">>[level], "/", word, ".mp3">>

\* The row inserted for one entry of a flattened list: from the JSON file of
\* its primary spelling if the file exists, else with empty fields
WordRow(id, level, word_info, json_file) ==
    IF json_file # <<>>
    THEN LET mw == json_file[1]
         IN  [id |-> id,
              word |-> word_info.word,
              difficulty_level |-> level,
              definition |-> Definition(mw),
              functional_label |-> Get(mw.functional_label, ""),
              pronunciation |-> Get(mw.pronunciation, ""),
              has_audio |-> Get(mw.has_audio, FALSE),
              audio_url |-> Get(mw.audio_url, ""),
              audio_file_local |-> AudioFileLocal(level, word_info.word),
              is_inflection |-> Get(mw.is_inflection, FALSE),
              base_word |-> Get(mw.base_word, ""),
              is_primary |-> word_info.is_primary,
              primary_word |-> word_info.primary_word]
    ELSE [id |-> id,
          word |-> word_info.word,
          difficulty_level |-> level,
          definition |-> <<>>,
          functional_label |-> "",
          pronunciation |-> "",
          has_audio |-> FALSE,
          audio_url |-> "",
          audio_file_local |-> AudioFileLocal(level, word_info.word),
          is_inflection |-> FALSE,
          base_word |-> "",
          is_primary |-> word_info.is_primary,
          primary_word |-> word_info.primary_word]

\* mw_data_dir / f"{word if is_primary else word_info['primary_word']}.json"
JsonFile(mw_data_dir, word_info) ==
    LET name == IF word_info.is_primary THEN word_info.word
                ELSE word_info.primary_word
    IN  IF name \in DOMAIN mw_data_dir.files THEN mw_data_dir.files[name]
        ELSE <<>>

\* The rows one level inserts, ids continuing after `base` rows
LevelRows(level, flat, base, mw_data_dir) ==
    [i \in 1..Len(flat) |->
        WordRow(base + i, level, flat[i], JsonFile(mw_data_dir, flat[i]))]

\* populate_words_from_json on the words table `table`: what it returns and
\* the table it leaves.  It returns False without a mw_data directory, and
\* True at once if the table has rows.
populate_words_from_json(mw_data_dir, table) ==
    IF ~mw_data_dir.exists
    THEN [returned |-> FALSE, words |-> table]
    ELSE IF Len(table) > 0
    THEN [returned |-> TRUE, words |-> table]
    ELSE LET f1 == flatten_word_list(ONE_BEE)
             f2 == flatten_word_list(TWO_BEE)
             f3 == flatten_word_list(THREE_BEE)
         IN  [returned |-> TRUE,
              words |-> table
                        \o LevelRows(1, f1, 0, mw_data_dir)
                        \o LevelRows(2, f2, Len(f1), mw_data_dir)
                        \o LevelRows(3, f3, Len(f1) + Len(f2), mw_data_dir)]

WordIds == {words[i].id : i \in DOMAIN words}
Levels == {1, 2, 3}
\* The word ids the direct calls of update_progress are made with: the
\* words a level-1 drill presents
DrilledWords == {words[i].id : i \in {j \in DOMAIN words :
                    words[j].difficulty_level = 1 /\ words[j].is_primary}}

\* Mutant of PrimaryWords: the is_primary condition is missing
PrimaryWordsAnySpelling(level) ==
    SelectSeq(words, LAMBDA w : w.difficulty_level = level)

\* SELECT * FROM words WHERE difficulty_level = ? AND is_primary = 1
PrimaryWords(level) ==
    SelectSeq(words, LAMBDA w : w.difficulty_level = level /\ w.is_primary)

-----------------------------------------------------------------------------
(* Learners and request threads *)

\* The user_id values the page offers, and the registered ids among them
UserKeys == {"guest", "2", "3"}
Registered == {"2", "3"}
\* int(user_id), for the registered ids
IntOf(user) == CASE user = "2" -> 2 [] user = "3" -> 3
Learners == {IntOf(u) : u \in Registered}

Threads == {"t1", "t2"}
\* The thread that serves the requests when they do not overlap
MainThread == "t1"

\* A thread between requests
Idle == [pc |-> "idle", op |-> "none", user |-> "guest", user_id |-> 0,
         word_id |-> 0, correct |-> FALSE, now |-> 0, result |-> <<>>,
         raised |-> FALSE]

AllIdle == \A t \in Threads : th[t].pc = "idle"

-----------------------------------------------------------------------------
(* SRS configuration and update_progress *)

\* Mutant of SRS_INTERVALS: level 2 given level 1's hour
SRS_INTERVALS_Flat ==
    (0 :> minutes(5)) @@ (1 :> hours(1)) @@ (2 :> hours(1))
    @@ (3 :> days(1)) @@ (4 :> days(3)) @@ (5 :> weeks(1))

SRS_INTERVALS ==
    (0 :> minutes(5)) @@ (1 :> hours(1)) @@ (2 :> hours(6))
    @@ (3 :> days(1)) @@ (4 :> days(3)) @@ (5 :> weeks(1))

\* SRS_INTERVALS.get(mastery_level, timedelta(weeks=2))
IntervalGet(mastery_level) ==
    IF mastery_level \in DOMAIN SRS_INTERVALS
    THEN SRS_INTERVALS[mastery_level]
    ELSE weeks(2)

\* SELECT * FROM user_word_progress WHERE user_id = ? AND word_id = ?
SelectProgress(store, user_id, word_id) ==
    SelectSeq(store, LAMBDA r : r.user_id = user_id /\ r.word_id = word_id)

\* cursor.fetchone() / [0] with IndexError: the first row, if any
fetchone(rows) == IF rows = <<>> THEN <<>> ELSE <<Head(rows)>>

\* AUTOINCREMENT primary key of the next inserted row (rows are never deleted)
NextId(store) == Len(store) + 1

\* Mutant of RemoteUpdateValues: the mastery level is not capped at 5
RemoteUpdateValuesNoCap(result, correct, now) ==
    LET mastery_level ==
            IF correct THEN result.mastery_level + 1
            ELSE Max(0, result.mastery_level - 1)
    IN  [times_attempted |-> result.times_attempted + 1,
         times_correct |-> result.times_correct + (IF correct THEN 1 ELSE 0),
         times_incorrect |-> result.times_incorrect + (IF correct THEN 0 ELSE 1),
         last_attempted_at |-> now,
         next_review_at |-> now + IntervalGet(mastery_level),
         current_streak |-> IF correct THEN result.current_streak + 1 ELSE 0,
         mastery_level |-> mastery_level]

\* Mutant of RemoteUpdateValues: every attempt is counted as correct
RemoteUpdateValuesCountAll(result, correct, now) ==
    LET mastery_level ==
            IF correct THEN Min(5, result.mastery_level + 1)
            ELSE Max(0, result.mastery_level - 1)
    IN  [times_attempted |-> result.times_attempted + 1,
         times_correct |-> result.times_correct + 1,
         times_incorrect |-> result.times_incorrect + (IF correct THEN 0 ELSE 1),
         last_attempted_at |-> now,
         next_review_at |-> now + IntervalGet(mastery_level),
         current_streak |-> IF correct THEN result.current_streak + 1 ELSE 0,
         mastery_level |-> mastery_level]

\* Mutant of RemoteUpdateValues: the interval is looked up with the mastery
\* level the row had before the attempt
RemoteUpdateValuesOldLevel(result, correct, now) ==
    LET mastery_level ==
            IF correct THEN Min(5, result.mastery_level + 1)
            ELSE Max(0, result.mastery_level - 1)
    IN  [times_attempted |-> result.times_attempted + 1,
         times_correct |-> result.times_correct + (IF correct THEN 1 ELSE 0),
         times_incorrect |-> result.times_incorrect + (IF correct THEN 0 ELSE 1),
         last_attempted_at |-> now,
         next_review_at |-> now + IntervalGet(result.mastery_level),
         current_streak |-> IF correct THEN result.current_streak + 1 ELSE 0,
         mastery_level |-> mastery_level]

\* Mutant of RemoteUpdateValues: an incorrect answer leaves the streak as it
\* was
RemoteUpdateValuesKeepStreak(result, correct, now) ==
    LET mastery_level ==
            IF correct THEN Min(5, result.mastery_level + 1)
            ELSE Max(0, result.mastery_level - 1)
    IN  [times_attempted |-> result.times_attempted + 1,
         times_correct |-> result.times_correct + (IF correct THEN 1 ELSE 0),
         times_incorrect |-> result.times_incorrect + (IF correct THEN 0 ELSE 1),
         last_attempted_at |-> now,
         next_review_at |-> now + IntervalGet(mastery_level),
         current_streak |-> IF correct THEN result.current_streak + 1
                            ELSE result.current_streak,
         mastery_level |-> mastery_level]

\* Remote branch, a row was found: the values the UPDATE statement sets
RemoteUpdateValues(result, correct, now) ==
    LET mastery_level ==
            IF correct THEN Min(5, result.mastery_level + 1)
            ELSE Max(0, result.mastery_level - 1)
    IN  [times_attempted |-> result.times_attempted + 1,
         times_correct |-> result.times_correct + (IF correct THEN 1 ELSE 0),
         times_incorrect |-> result.times_incorrect + (IF correct THEN 0 ELSE 1),
         last_attempted_at |-> now,
         next_review_at |-> now + IntervalGet(mastery_level),
         current_streak |-> IF correct THEN result.current_streak + 1 ELSE 0,
         mastery_level |-> mastery_level]

\* Mutant of RemoteUpdate: times_attempted is missing from the SET list
RemoteUpdateNoAttempted(store, prog_id, v) ==
    [i \in DOMAIN store |->
        IF store[i].id = prog_id
        THEN [store[i] EXCEPT
                !.times_correct = v.times_correct,
                !.times_incorrect = v.times_incorrect,
                !.last_attempted_at = v.last_attempted_at,
                !.next_review_at = v.next_review_at,
                !.current_streak = v.current_streak,
                !.mastery_level = v.mastery_level]
        ELSE store[i]]

\* UPDATE user_word_progress SET ... WHERE id = prog_id
RemoteUpdate(store, prog_id, v) ==
    [i \in DOMAIN store |->
        IF store[i].id = prog_id
        THEN [store[i] EXCEPT
                !.times_attempted = v.times_attempted,
                !.times_correct = v.times_correct,
                !.times_incorrect = v.times_incorrect,
                !.last_attempted_at = v.last_attempted_at,
                !.next_review_at = v.next_review_at,
                !.current_streak = v.current_streak,
                !.mastery_level = v.mastery_level]
        ELSE store[i]]

\* Mutant of RemoteInsertRow: times_incorrect starts at 0 whatever the answer
RemoteInsertRowNoIncorrect(store, user_id, word_id, correct, now) ==
    LET mastery_level == IF correct THEN 1 ELSE 0
    IN  [id |-> NextId(store),
         user_id |-> user_id,
         word_id |-> word_id,
         times_attempted |-> 1,
         times_correct |-> IF correct THEN 1 ELSE 0,
         times_incorrect |-> 0,
         first_attempted_at |-> now,
         last_attempted_at |-> now,
         next_review_at |-> now + IntervalGet(mastery_level),
         current_streak |-> IF correct THEN 1 ELSE 0,
         mastery_level |-> mastery_level]

\* Remote branch, no row was found: the inserted row
RemoteInsertRow(store, user_id, word_id, correct, now) ==
    LET mastery_level == IF correct THEN 1 ELSE 0
    IN  [id |-> NextId(store),
         user_id |-> user_id,
         word_id |-> word_id,
         times_attempted |-> 1,
         times_correct |-> IF correct THEN 1 ELSE 0,
         times_incorrect |-> IF correct THEN 0 ELSE 1,
         first_attempted_at |-> now,
         last_attempted_at |-> now,
         next_review_at |-> now + IntervalGet(mastery_level),
         current_streak |-> IF correct THEN 1 ELSE 0,
         mastery_level |-> mastery_level]

\* Mutant of LocalLoaded: the fresh object has the counters of a first
\* attempt already
LocalLoadedCounted(result, user_id, word_id, now) ==
    IF result # <<>> THEN result[1]
    ELSE [id |-> 0,
          user_id |-> user_id,
          word_id |-> word_id,
          times_attempted |-> 1,
          times_correct |-> 0,
          times_incorrect |-> 0,
          first_attempted_at |-> now,
          last_attempted_at |-> now,
          next_review_at |-> now,
          current_streak |-> 0,
          mastery_level |-> 0]

\* Local branch: the copy of the row read, or a fresh object with id None
\* (0 here) and zero counters
LocalLoaded(result, user_id, word_id, now) ==
    IF result # <<>> THEN result[1]
    ELSE [id |-> 0,
          user_id |-> user_id,
          word_id |-> word_id,
          times_attempted |-> 0,
          times_correct |-> 0,
          times_incorrect |-> 0,
          first_attempted_at |-> now,
          last_attempted_at |-> now,
          next_review_at |-> now,
          current_streak |-> 0,
          mastery_level |-> 0]

\* Mutant of LocalApplied: the streak is capped at 5 like the mastery level
LocalAppliedCappedStreak(prog, correct, now) ==
    LET mastery_level ==
            IF correct THEN Min(5, prog.mastery_level + 1)
            ELSE Max(0, prog.mastery_level - 1)
    IN  [prog EXCEPT
            !.times_attempted = @ + 1,
            !.last_attempted_at = now,
            !.times_correct = IF correct THEN @ + 1 ELSE @,
            !.times_incorrect = IF correct THEN @ ELSE @ + 1,
            !.current_streak = IF correct THEN Min(5, @ + 1) ELSE 0,
            !.mastery_level = mastery_level,
            !.next_review_at = now + IntervalGet(mastery_level)]

\* Local branch: the object after the attempt is applied to it
LocalApplied(prog, correct, now) ==
    LET mastery_level ==
            IF correct THEN Min(5, prog.mastery_level + 1)
            ELSE Max(0, prog.mastery_level - 1)
    IN  [prog EXCEPT
            !.times_attempted = @ + 1,
            !.last_attempted_at = now,
            !.times_correct = IF correct THEN @ + 1 ELSE @,
            !.times_incorrect = IF correct THEN @ ELSE @ + 1,
            !.current_streak = IF correct THEN @ + 1 ELSE 0,
            !.mastery_level = mastery_level,
            !.next_review_at = now + IntervalGet(mastery_level)]

\* Mutant of LocalSave: the object is always inserted
LocalSaveAlwaysInsert(store, prog) ==
    Append(store, [prog EXCEPT !.id = NextId(store)])

\* Local branch: insert when prog.id is None, else update the row of that id
LocalSave(store, prog) ==
    IF prog.id = 0
    THEN Append(store, [prog EXCEPT !.id = NextId(store)])
    ELSE [i \in DOMAIN store |-> IF store[i].id = prog.id THEN prog ELSE store[i]]

\* Mutant of UpdateProgressWrite: the row is looked up again at the write,
\* as if the lookup and the write were one transaction
UpdateProgressWriteIsolated(store, l) ==
    LET result == fetchone(SelectProgress(store, l.user_id, l.word_id))
    IN  IF backend = "remote"
        THEN IF result # <<>>
             THEN RemoteUpdate(store, result[1].id,
                               RemoteUpdateValues(result[1], l.correct, l.now))
             ELSE Append(store, RemoteInsertRow(store, l.user_id, l.word_id,
                                                l.correct, l.now))
        ELSE LocalSave(store,
                       LocalApplied(LocalLoaded(result, l.user_id, l.word_id, l.now),
                                    l.correct, l.now))

\* The write half of the remote branch: UPDATE the row found, or INSERT
RemoteWrite(store, l) ==
    IF l.result # <<>>
    THEN RemoteUpdate(store, l.result[1].id,
                      RemoteUpdateValues(l.result[1], l.correct, l.now))
    ELSE Append(store, RemoteInsertRow(store, l.user_id, l.word_id,
                                       l.correct, l.now))

\* The write half of the local branch: load or create, apply, save
LocalWrite(store, l) ==
    LocalSave(store,
              LocalApplied(LocalLoaded(l.result, l.user_id, l.word_id, l.now),
                           l.correct, l.now))

\* The table after the write half of update_progress, from the locals `l`
\* (user_id, word_id, correct, now, result) set by its read half
UpdateProgressWrite(store, l) ==
    IF backend = "remote" THEN RemoteWrite(store, l) ELSE LocalWrite(store, l)

\* History of the calls, after one more call has completed
HistoryAfter(h, user_id, word_id, correct) ==
    [h EXCEPT ![<<user_id, word_id>>] =
        [calls |-> @.calls + 1, run |-> IF correct THEN @.run + 1 ELSE 0]]

\* update_progress, first half: now = datetime.now() and the lookup
UpdateProgressRead(t, user_id, word_id, correct) ==
    th' = [th EXCEPT ![t] =
             [pc |-> "write", op |-> "update_progress", user |-> "guest",
              user_id |-> user_id, word_id |-> word_id, correct |-> correct,
              now |-> clock,
              result |-> fetchone(SelectProgress(user_word_progress,
                                                  user_id, word_id)),
              raised |-> FALSE]]

RECURSIVE SumCalls(_, _)
SumCalls(h, pairs) ==
    IF pairs = {} THEN 0
    ELSE LET p == CHOOSE q \in pairs : TRUE
         IN  h[p].calls + SumCalls(h, pairs \ {p})

\* update_progress calls so far: those completed and those in flight
Attempts ==
    Cardinality({t \in Threads : th[t].pc = "write"})
    + SumCalls(call_history, DOMAIN call_history)

-----------------------------------------------------------------------------
(* Statistics *)

\* A Python float has a 53-bit significand
Precision == 53

\* A significand is a sequence of bits, most significant first
RECURSIVE BitsToNat(_)
BitsToNat(bits) ==
    IF bits = <<>> THEN 0
    ELSE 2 * BitsToNat(SubSeq(bits, 1, Len(bits) - 1)) + bits[Len(bits)]

RECURSIVE NatToBits(_)
NatToBits(n) == IF n = 0 THEN <<>> ELSE Append(NatToBits(n \div 2), n % 2)

\* bits[1..i] * k + carry followed by out, digit by digit from bit i down
RECURSIVE MulBitsFrom(_, _, _, _, _)
MulBitsFrom(bits, k, i, carry, out) ==
    IF i = 0 THEN NatToBits(carry) \o out
    ELSE LET v == bits[i] * k + carry
         IN  IF v % 2 = 1
             THEN MulBitsFrom(bits, k, i - 1, v \div 2, <<1>> \o out)
             ELSE MulBitsFrom(bits, k, i - 1, v \div 2, <<0>> \o out)

\* bits * k + carry
MulBits(bits, k, carry) == MulBitsFrom(bits, k, Len(bits), carry, <<>>)

\* Round-half-to-even of a significand of more than Precision bits (sticky:
\* a nonzero remainder lies below its last bit); exp counts the bits dropped
RoundNearestEven(bits, sticky) ==
    LET keep == SubSeq(bits, 1, Precision)
        rest == SubSeq(bits, Precision + 1, Len(bits))
        half == IF rest = <<>> THEN FALSE ELSE rest[1] = 1
        below == sticky \/ \E i \in 2..Len(rest) : rest[i] = 1
        up == half /\ (below \/ keep[Precision] = 1)
        m == IF up THEN MulBits(keep, 1, 1) ELSE keep
    IN  IF Len(m) > Precision
        THEN [mant |-> SubSeq(m, 1, Precision), exp |-> Len(rest) + 1]
        ELSE [mant |-> m, exp |-> Len(rest)]

\* Long division r / t, r < 2t: the first Precision + 1 bits from the leading
\* one on, the count of zero bits skipped before it, and whether a remainder
\* is left
RECURSIVE QuotientBits(_, _, _, _)
QuotientBits(r, t, bits, skipped) ==
    IF Len(bits) = Precision + 1
    THEN [bits |-> bits, sticky |-> r # 0, skipped |-> skipped]
    ELSE LET b == IF r >= t THEN 1 ELSE 0
             r2 == 2 * (r - b * t)
         IN  IF bits = <<>> /\ b = 0
             THEN QuotientBits(r2, t, bits, skipped + 1)
             ELSE QuotientBits(r2, t, Append(bits, b), skipped)

\* The float a / b of two ints 0 <= a <= b, b > 0: mant * 2^exp, mant = <<>>
\* for 0.0
truediv(a, b) ==
    IF a = 0 THEN [mant |-> <<>>, exp |-> 0]
    ELSE LET q == QuotientBits(a, b, <<>>, 0)
             r == RoundNearestEven(q.bits, q.sticky)
         IN  [mant |-> r.mant, exp |-> r.exp - (q.skipped + Precision)]

\* The float x * k for an int k > 0
float_mul(x, k) ==
    IF x.mant = <<>> THEN x
    ELSE LET r == RoundNearestEven(MulBits(x.mant, k, 0), FALSE)
         IN  [mant |-> r.mant, exp |-> x.exp + r.exp]

\* int(x) of a float 0 <= x < 2^Precision: the fraction is cut off
int(x) ==
    IF x.exp >= 0 THEN BitsToNat(x.mant) * 2 ^ x.exp
    ELSE BitsToNat(SubSeq(x.mant, 1, Len(x.mant) + x.exp))

\* int((count / total) * 100) if total > 0 else 0
Percentage(count, total) ==
    IF total > 0 THEN int(float_mul(truediv(count, total), 100)) ELSE 0

\* The dict get_user_stats returns for its three counts
StatsReturn(total, mastered, in_progress) ==
    [total |-> total, mastered |-> mastered, in_progress |-> in_progress,
     not_started |-> total - mastered - in_progress,
     mastery_pct |-> Percentage(mastered, total),
     progress_pct |-> Percentage(mastered + in_progress, total)]

\* Mutant of get_user_stats: the rows are looked up by word_id alone
get_user_stats_any_learner(store, user_id, difficulty_level) ==
    LET all_words == PrimaryWords(difficulty_level)
        result(i) == fetchone(SelectSeq(store, LAMBDA r : r.word_id = all_words[i].id))
        total == Len(all_words)
        mastered == Cardinality({i \in DOMAIN all_words :
                        IF result(i) # <<>>
                        THEN result(i)[1].mastery_level >= 5 ELSE FALSE})
        in_progress == Cardinality({i \in DOMAIN all_words :
                        IF result(i) # <<>>
                        THEN /\ ~(result(i)[1].mastery_level >= 5)
                             /\ result(i)[1].mastery_level > 0
                        ELSE FALSE})
    IN  StatsReturn(total, mastered, in_progress)

\* get_user_stats: the learner's counts over the tier's primary words
get_user_stats(store, user_id, difficulty_level) ==
    LET all_words == PrimaryWords(difficulty_level)
        result(i) == fetchone(SelectProgress(store, user_id, all_words[i].id))
        total == Len(all_words)
        mastered == Cardinality({i \in DOMAIN all_words :
                        IF result(i) # <<>>
                        THEN result(i)[1].mastery_level >= 5 ELSE FALSE})
        in_progress == Cardinality({i \in DOMAIN all_words :
                        IF result(i) # <<>>
                        THEN /\ ~(result(i)[1].mastery_level >= 5)
                             /\ result(i)[1].mastery_level > 0
                        ELSE FALSE})
    IN  StatsReturn(total, mastered, in_progress)

-----------------------------------------------------------------------------
(* Word selection and scrambling *)

\* The set of a sequence's elements
Range(seq) == {seq[i] : i \in DOMAIN seq}

\* Mutant of Repeat: the word enters the pool once, whatever its priority
RepeatOnce(x, n) == <<x>>

\* [x] * n
Repeat(x, n) == [i \in 1..n |-> x]

\* user_progress[row.word_id] = row over the learner's rows in table order:
\* the last row of a word wins
UserProgress(store, user_id, word_id) ==
    LET rows == SelectProgress(store, user_id, word_id)
    IN  IF rows = <<>> THEN <<>> ELSE <<rows[Len(rows)]>>

\* get_next_word's loop over all_words: the words with no progress row
RECURSIVE NewWords(_, _, _)
NewWords(all_words, store, user_id) ==
    IF all_words = <<>> THEN <<>>
    ELSE LET word == Head(all_words)
             rest == NewWords(Tail(all_words), store, user_id)
         IN  IF UserProgress(store, user_id, word.id) = <<>>
             THEN <<word>> \o rest
             ELSE rest

\* Mutant of DueWords: a word is due only after its review time has passed
RECURSIVE DueWordsAfter(_, _, _, _)
DueWordsAfter(all_words, store, user_id, now) ==
    IF all_words = <<>> THEN <<>>
    ELSE LET word == Head(all_words)
             prog == UserProgress(store, user_id, word.id)
             rest == DueWordsAfter(Tail(all_words), store, user_id, now)
         IN  IF prog # <<>> /\ prog[1].next_review_at < now
             THEN Repeat(word, 10 - prog[1].mastery_level) \o rest
             ELSE rest

\* get_next_word's loop over all_words: each word whose review is due,
\* priority = 10 - mastery_level times
RECURSIVE DueWords(_, _, _, _)
DueWords(all_words, store, user_id, now) ==
    IF all_words = <<>> THEN <<>>
    ELSE LET word == Head(all_words)
             prog == UserProgress(store, user_id, word.id)
             rest == DueWords(Tail(all_words), store, user_id, now)
         IN  IF prog # <<>> /\ prog[1].next_review_at <= now
             THEN Repeat(word, 10 - prog[1].mastery_level) \o rest
             ELSE rest

\* Mutant of GetNextWordPool: a level without words falls back on the words
\* of every level
GetNextWordPoolAnyLevel(store, user_id, difficulty_level, now, below) ==
    LET all_words == PrimaryWords(difficulty_level)
        due_words == DueWords(all_words, store, user_id, now)
        new_words == NewWords(all_words, store, user_id)
    IN  IF due_words # <<>> /\ below THEN due_words
        ELSE IF new_words # <<>> THEN new_words
        ELSE IF due_words # <<>> THEN due_words
        ELSE IF all_words # <<>> THEN all_words
        ELSE words

\* Mutant of GetNextWordPool: without new words the whole level is used, the
\* due words are not preferred
GetNextWordPoolNoDueFallback(store, user_id, difficulty_level, now, below) ==
    LET all_words == PrimaryWords(difficulty_level)
        due_words == DueWords(all_words, store, user_id, now)
        new_words == NewWords(all_words, store, user_id)
    IN  IF due_words # <<>> /\ below THEN due_words
        ELSE IF new_words # <<>> THEN new_words
        ELSE all_words

\* The list get_next_word hands to random.choice, given whether
\* random.random() < 0.7 came out true; <<>> makes random.choice raise
GetNextWordPool(store, user_id, difficulty_level, now, below) ==
    LET all_words == PrimaryWords(difficulty_level)
        due_words == DueWords(all_words, store, user_id, now)
        new_words == NewWords(all_words, store, user_id)
    IN  IF due_words # <<>> /\ below THEN due_words
        ELSE IF new_words # <<>> THEN new_words
        ELSE IF due_words # <<>> THEN due_words
        ELSE all_words

\* The words get_next_word can return
get_next_word(store, user_id, difficulty_level, now) ==
    UNION {Range(GetNextWordPool(store, user_id, difficulty_level, now, below)) :
             below \in BOOLEAN}

\* Every arrangement random.shuffle can leave the letters in
Shuffles(word) ==
    {[i \in 1..Len(word) |-> word[p[i]]] : p \in Permutations(1..Len(word))}

\* Mutant of SwapFirstTwo: the second letter is copied over the first and
\* the first is lost
SwapFirstTwoCopy(word) ==
    [i \in 1..Len(word) |-> IF i = 1 THEN word[2] ELSE word[i]]

\* letters[0], letters[1] = letters[1], letters[0]
SwapFirstTwo(word) ==
    [i \in 1..Len(word) |-> IF i = 1 THEN word[2] ELSE IF i = 2 THEN word[1] ELSE word[i]]

\* The strings jumble_word can return: the word itself when it has at most
\* one letter; else a shuffle that differs from the word, or, when all 100
\* shuffles reproduced the word, the word with its first two letters swapped
jumble_word(word) ==
    IF Len(word) <= 1 THEN {word}
    ELSE (Shuffles(word) \ {word}) \cup {SwapFirstTwo(word)}

-----------------------------------------------------------------------------
(* Answer checking *)

LowerChar(c) ==
    CASE c = "A" -> "a" [] c = "B" -> "b" [] c = "E" -> "e" [] c = "G" -> "g"
      [] c = "K" -> "k" [] c = "O" -> "o" [] c = "S" -> "s" [] c = "X" -> "x"
      [] OTHER -> c

\* str.lower()
lower(str) == [i \in 1..Len(str) |-> LowerChar(str[i])]

\* SELECT * FROM words WHERE id = ?
WordById(word_id) == SelectSeq(words, LAMBDA w : w.id = word_id)

\* Mutant of check_answer_against_alternates: an alternate is compared with
\* the alternates of its primary word too
check_answer_against_siblings(answer, word_id) ==
    LET word == WordById(word_id)[1]
        alternates == SelectSeq(words, LAMBDA w :
                          w.primary_word # <<>>
                          /\ w.primary_word = (IF word.is_primary THEN word.word
                                               ELSE word.primary_word))
    IN  \/ answer = lower(word.word)
        \/ /\ ~word.is_primary
           /\ word.primary_word # <<>>
           /\ answer = lower(word.primary_word)
        \/ \E i \in DOMAIN alternates : answer = lower(alternates[i].word)

\* check_answer_against_alternates, for a word_id that has a row
check_answer_against_alternates(answer, word_id) ==
    LET word == WordById(word_id)[1]
        alternates == SelectSeq(words, LAMBDA w : w.primary_word = word.word)
    IN  \/ answer = lower(word.word)
        \/ /\ ~word.is_primary
           /\ word.primary_word # <<>>
           /\ answer = lower(word.primary_word)
        \/ /\ word.is_primary
           /\ \E i \in DOMAIN alternates : answer = lower(alternates[i].word)

-----------------------------------------------------------------------------
(* Sessions *)

\* The dict get_session creates; current_word None is <<>>, a word is <<row>>;
\* jumbled None is <<>>
NewSession ==
    [current_word |-> <<>>, jumbled |-> <<>>, difficulty |-> 1,
     show_hint |-> FALSE, current_answer |-> <<>>]

\* Mutant of get_session: the dict created for a new learner is stored
\* under the key "guest" as well
get_session_shared(ss, user) ==
    IF ss[user] = <<>>
    THEN [ss EXCEPT ![user] = <<NewSession>>, !["guest"] = <<NewSession>>]
    ELSE ss

\* session_state after get_session(user): an absent entry is created
get_session(ss, user) ==
    IF ss[user] = <<>> THEN [ss EXCEPT ![user] = <<NewSession>>] ELSE ss

\* The words game_interface can pick for a session without a current word
NextWordChoices(user, difficulty) ==
    IF user # "guest"
    THEN get_next_word(user_word_progress, IntOf(user), difficulty, clock)
    ELSE Range(PrimaryWords(difficulty))

\* game_interface(user), run on the session mapping `ss` the handler has
\* prepared: it creates the session if absent and, when the session has no
\* current word, picks one and scrambles it; picking from an empty level
\* raises, after the session was created
game_interface(t, ss, user) ==
    LET s1 == get_session(ss, user)
        session == s1[user][1]
        choices == NextWordChoices(user, session.difficulty)
    IN  IF session.current_word # <<>>
        THEN /\ session_state' = s1
             /\ th' = [th EXCEPT ![t] = Idle]
        ELSE IF choices = {}
        THEN /\ session_state' = s1
             /\ th' = [th EXCEPT ![t] = [Idle EXCEPT !.raised = TRUE]]
        ELSE /\ \E word \in choices : \E jumbled \in jumble_word(word.word) :
                   session_state' =
                     [s1 EXCEPT ![user] =
                        <<[session EXCEPT !.current_word = <<word>>,
                                          !.jumbled = jumbled,
                                          !.show_hint = FALSE]>>]
             /\ th' = [th EXCEPT ![t] = Idle]

-----------------------------------------------------------------------------
(* Actions *)

Init ==
    /\ words = populate_words_from_json(MwDataAtStartup, <<>>).words
    /\ user_word_progress = <<>>
    /\ session_state = [u \in UserKeys |-> <<>>]
    /\ clock = 0
    /\ backend \in {"remote", "local"}
    /\ th = [t \in Threads |-> Idle]
    /\ call_history = [p \in Learners \X WordIds |-> [calls |-> 0, run |-> 0]]

\* Five minutes pass
Tick ==
    /\ clock + minutes(5) <= MaxClock
    /\ clock' = clock + minutes(5)
    /\ UNCHANGED <<words, user_word_progress, session_state, backend, th, call_history>>

\* A direct call update_progress(user_id, word_id, correct) begins; calls do
\* not overlap
CallUpdateProgress(t, user_id, word_id, correct) ==
    /\ AllIdle
    /\ Attempts < MaxAttempts
    /\ \/ Len(user_word_progress) < MaxRecords
       \/ SelectProgress(user_word_progress, user_id, word_id) # <<>>
    /\ UpdateProgressRead(t, user_id, word_id, correct)
    /\ UNCHANGED <<words, user_word_progress, session_state, clock, backend, call_history>>

\* update_progress, second half: the insert or update, and the return
ReturnUpdateProgress(t) ==
    /\ th[t].pc = "write"
    /\ th[t].op = "update_progress"
    /\ user_word_progress' = UpdateProgressWrite(user_word_progress, th[t])
    /\ call_history' = HistoryAfter(call_history, th[t].user_id, th[t].word_id, th[t].correct)
    /\ th' = [th EXCEPT ![t] = Idle]
    /\ UNCHANGED <<words, session_state, clock, backend>>

\* The strings submitted as answers
Answers == {W_go, W_ax, W_be}

\* GET /set_user (and the index page, for "guest")
set_user(t, user) ==
    /\ th[t].pc = "idle"
    /\ game_interface(t, session_state, user)
    /\ UNCHANGED <<words, user_word_progress, clock, backend, call_history>>

\* Mutant of set_difficulty: the current word is kept when the level changes
set_difficulty_keeps_word(t, user, level) ==
    /\ th[t].pc = "idle"
    /\ LET s1 == get_session(session_state, user)
       IN  game_interface(t,
               [s1 EXCEPT ![user] = <<[s1[user][1] EXCEPT !.difficulty = level]>>],
               user)
    /\ UNCHANGED <<words, user_word_progress, clock, backend, call_history>>

\* POST /set_difficulty
set_difficulty(t, user, level) ==
    /\ th[t].pc = "idle"
    /\ LET s1 == get_session(session_state, user)
       IN  game_interface(t,
               [s1 EXCEPT ![user] = <<[s1[user][1] EXCEPT !.difficulty = level,
                                                          !.current_word = <<>>]>>],
               user)
    /\ UNCHANGED <<words, user_word_progress, clock, backend, call_history>>

\* POST /toggle_hint
toggle_hint(t, user) ==
    /\ th[t].pc = "idle"
    /\ LET s1 == get_session(session_state, user)
       IN  game_interface(t,
               [s1 EXCEPT ![user] = <<[s1[user][1] EXCEPT !.show_hint = ~@]>>],
               user)
    /\ UNCHANGED <<words, user_word_progress, clock, backend, call_history>>

\* Mutant of check_answer: update_progress is called for "guest" too, with
\* the user id 0
check_answer_any_user(t, user, word_id, answer) ==
    /\ th[t].pc = "idle"
    /\ IF WordById(word_id) = <<>>
       THEN th' = [th EXCEPT ![t] = [Idle EXCEPT !.raised = TRUE]]
       ELSE LET correct == check_answer_against_alternates(answer, word_id)
                user_id == IF user = "guest" THEN 0 ELSE IntOf(user)
            IN  th' = [th EXCEPT ![t] =
                          [pc |-> "write", op |-> "check_answer", user |-> user,
                           user_id |-> user_id, word_id |-> word_id,
                           correct |-> correct, now |-> clock,
                           result |-> fetchone(SelectProgress(user_word_progress,
                                                   user_id, word_id)),
                           raised |-> FALSE]]
    /\ UNCHANGED <<words, user_word_progress, session_state, clock, backend, call_history>>

\* Mutant of check_answer: update_progress is not called
check_answer_skips_update(t, user, word_id, answer) ==
    /\ th[t].pc = "idle"
    /\ IF WordById(word_id) = <<>>
       THEN th' = [th EXCEPT ![t] = [Idle EXCEPT !.raised = TRUE]]
       ELSE LET correct == check_answer_against_alternates(answer, word_id)
            IN  th' = [th EXCEPT ![t] =
                          [Idle EXCEPT !.pc = "session", !.op = "check_answer",
                                       !.user = user, !.word_id = word_id,
                                       !.correct = correct]]
    /\ UNCHANGED <<words, user_word_progress, session_state, clock, backend, call_history>>

\* POST /check_answer, up to update_progress's lookup: the answer is checked
\* (a word_id with no row raises) and, for a learner other than "guest",
\* update_progress starts
check_answer(t, user, word_id, answer) ==
    /\ th[t].pc = "idle"
    /\ IF WordById(word_id) = <<>>
       THEN th' = [th EXCEPT ![t] = [Idle EXCEPT !.raised = TRUE]]
       ELSE LET correct == check_answer_against_alternates(answer, word_id)
            IN  IF user # "guest"
                THEN th' = [th EXCEPT ![t] =
                              [pc |-> "write", op |-> "check_answer", user |-> user,
                               user_id |-> IntOf(user), word_id |-> word_id,
                               correct |-> correct, now |-> clock,
                               result |-> fetchone(SelectProgress(user_word_progress,
                                                       IntOf(user), word_id)),
                               raised |-> FALSE]]
                ELSE th' = [th EXCEPT ![t] =
                              [Idle EXCEPT !.pc = "session", !.op = "check_answer",
                                           !.user = user, !.word_id = word_id,
                                           !.correct = correct]]
    /\ UNCHANGED <<words, user_word_progress, session_state, clock, backend, call_history>>

\* check_answer: update_progress's insert or update
check_answer_write(t) ==
    /\ th[t].pc = "write"
    /\ th[t].op = "check_answer"
    /\ user_word_progress' = UpdateProgressWrite(user_word_progress, th[t])
    /\ call_history' = HistoryAfter(call_history, th[t].user_id, th[t].word_id, th[t].correct)
    /\ th' = [th EXCEPT ![t].pc = "session"]
    /\ UNCHANGED <<words, session_state, clock, backend>>

\* check_answer, after update_progress: a correct answer clears the current
\* word, and the page is rendered again
check_answer_session(t) ==
    /\ th[t].pc = "session"
    /\ LET user == th[t].user
           s1 == get_session(session_state, user)
       IN  game_interface(t,
               IF th[t].correct
               THEN [s1 EXCEPT ![user] = <<[s1[user][1] EXCEPT !.current_word = <<>>]>>]
               ELSE s1,
               user)
    /\ UNCHANGED <<words, user_word_progress, clock, backend, call_history>>

\* The learners a request can come from: those with a session, and new ones
\* while there is room
Admitted ==
    {user \in UserKeys :
        \/ session_state[user] # <<>>
        \/ Cardinality({u \in UserKeys : session_state[u] # <<>>}) < MaxSessions}

\* The word_id the page of `user` posts with an answer: the hidden field
\* holds the id of the word the page shows, the session's current word
PostedWordIds(user) ==
    IF session_state[user] = <<>> THEN {}
    ELSE {session_state[user][1].current_word[i].id :
            i \in DOMAIN session_state[user][1].current_word}

\* A request arrives at thread t
Request(t) ==
    \/ \E user \in Admitted : set_user(t, user)
    \/ \E user \in Admitted, level \in Levels : set_difficulty(t, user, level)
    \/ \E user \in Admitted : toggle_hint(t, user)
    \/ \E user \in Admitted, answer \in Answers : \E word_id \in PostedWordIds(user) :
          /\ user # "guest" => Attempts < MaxDrillAttempts
          /\ check_answer(t, user, word_id, answer)

\* The handlers run on the server's worker threads: a request arrives at an
\* idle thread, and the requests of the two threads interleave at
\* update_progress's lookup and write
Next ==
    \E t \in Threads :
        \/ Request(t)
        \/ check_answer_write(t)
        \/ check_answer_session(t)

Spec == Init /\ [][Next]_vars

NextProgress ==
    \/ Tick
    \/ \E u \in Learners, w \in DrilledWords, c \in BOOLEAN :
          CallUpdateProgress(MainThread, u, w, c)
    \/ ReturnUpdateProgress(MainThread)

SpecProgress == Init /\ [][NextProgress]_vars

\* A direct call of update_progress begins on thread t, whatever the other
\* thread is doing
CallUpdateProgressConc(t, user_id, word_id, correct) ==
    /\ th[t].pc = "idle"
    /\ Attempts < MaxConcAttempts
    /\ UpdateProgressRead(t, user_id, word_id, correct)
    /\ UNCHANGED <<words, user_word_progress, session_state, clock, backend, call_history>>

\* update_progress calls made by two threads that interleave
NextConc ==
    \/ Tick
    \/ \E t \in Threads, u \in Learners, w \in DrilledWords, c \in BOOLEAN :
          CallUpdateProgressConc(t, u, w, c)
    \/ \E t \in Threads : ReturnUpdateProgress(t)

SpecConc == Init /\ [][NextConc]_vars

\* An hour passes
Wait ==
    /\ clock + hours(1) <= MaxWait
    /\ clock' = clock + hours(1)
    /\ UNCHANGED <<words, user_word_progress, session_state, backend, th, call_history>>

\* update_progress calls that do not overlap, with reviews an hour apart
NextReview ==
    \/ Wait
    \/ \E u \in Learners, w \in DrilledWords, c \in BOOLEAN :
          CallUpdateProgress(MainThread, u, w, c)
    \/ ReturnUpdateProgress(MainThread)

SpecReview == Init /\ [][NextReview]_vars

\* The letters of the words jumble_word is called with
Letters == {"a", "b"}
JumbleInputs == UNION {[1..n -> Letters] : n \in 0..MaxLen}

\* while (...) and attempts < 100
ShuffleAttempts == 100

\* jumble_word(word) is called: a word of at most one letter is returned at
\* once; else jumbled = None (<<>> here; a string s is <<s>>), attempts = 0
CallJumbleWord(t, word) ==
    /\ th[t].pc = "idle"
    /\ th' = [th EXCEPT ![t] =
                 IF Len(word) <= 1
                 THEN [pc |-> "returned", op |-> "jumble_word", word |-> word,
                       jumbled |-> <<>>, attempts |-> 0, result |-> <<word>>,
                       raised |-> FALSE]
                 ELSE [pc |-> "loop", op |-> "jumble_word", word |-> word,
                       jumbled |-> <<>>, attempts |-> 0, result |-> <<>>,
                       raised |-> FALSE]]
    /\ UNCHANGED <<words, user_word_progress, session_state, clock, backend, call_history>>

\* The loop's condition, on the locals l:
\* (jumbled is None or jumbled == word) and attempts < 100
JumbleLoops(l) ==
    /\ (IF l.jumbled = <<>> THEN TRUE ELSE l.jumbled[1] = l.word)
    /\ l.attempts < ShuffleAttempts

\* One pass of jumble_word's loop: shuffle, join, attempts += 1
JumbleShuffle(t) ==
    /\ th[t].pc = "loop"
    /\ JumbleLoops(th[t])
    /\ \E jumbled \in Shuffles(th[t].word) :
          th' = [th EXCEPT ![t].jumbled = <<jumbled>>,
                           ![t].attempts = @ + 1]
    /\ UNCHANGED <<words, user_word_progress, session_state, clock, backend, call_history>>

\* jumble_word after its loop: the first two letters are swapped if the
\* last shuffle reproduced the word, and jumbled is returned
JumbleReturn(t) ==
    /\ th[t].pc = "loop"
    /\ ~JumbleLoops(th[t])
    /\ th' = [th EXCEPT ![t].pc = "returned",
                        ![t].result =
                           IF th[t].jumbled[1] = th[t].word /\ Len(th[t].word) > 1
                           THEN <<SwapFirstTwo(th[t].word)>>
                           ELSE th[t].jumbled]
    /\ UNCHANGED <<words, user_word_progress, session_state, clock, backend, call_history>>

\* The strings check_answer_against_alternates is called with
Submissions ==
    {W_go, <<"G", "O">>, <<"o", "g">>, W_ax, W_axe, W_Aks, <<"a", "k", "s">>}

\* A word_id that has no row in words
UnknownWordId == Len(words) + 1

\* check_answer_against_alternates(answer, word_id) is called and returns,
\* or raises: Word(None) and db.t.words[word_id] raise for an id without row
CallCheckAnswer(t, answer, word_id) ==
    /\ th[t].pc = "idle"
    /\ th' = [th EXCEPT ![t] =
                 IF WordById(word_id) = <<>>
                 THEN [pc |-> "returned", op |-> "check_answer_against_alternates",
                       answer |-> answer, word_id |-> word_id, result |-> <<>>,
                       raised |-> TRUE]
                 ELSE [pc |-> "returned", op |-> "check_answer_against_alternates",
                       answer |-> answer, word_id |-> word_id,
                       result |-> <<check_answer_against_alternates(answer, word_id)>>,
                       raised |-> FALSE]]
    /\ UNCHANGED <<words, user_word_progress, session_state, clock, backend, call_history>>

\* get_user_stats has counted total, mastered and in_progress and returns
\* its dict
CallStatsReturn(t, total, mastered, in_progress) ==
    /\ th[t].pc = "idle"
    /\ th' = [th EXCEPT ![t] =
                 [pc |-> "returned", op |-> "get_user_stats",
                  result |-> <<StatsReturn(total, mastered, in_progress)>>,
                  raised |-> FALSE]]
    /\ UNCHANGED <<words, user_word_progress, session_state, clock, backend, call_history>>

\* The caller has the result; the thread is free for the next call
FunctionReturn(t) ==
    /\ th[t].pc = "returned"
    /\ th' = [th EXCEPT ![t] = Idle]
    /\ UNCHANGED <<words, user_word_progress, session_state, clock, backend, call_history>>

\* Calls of jumble_word and check_answer_against_alternates and returns of
\* get_user_stats, one at a time
NextFunctions ==
    \/ \E word \in JumbleInputs : CallJumbleWord(MainThread, word)
    \/ JumbleShuffle(MainThread)
    \/ JumbleReturn(MainThread)
    \/ \E answer \in Submissions, word_id \in WordIds \cup {UnknownWordId} :
          CallCheckAnswer(MainThread, answer, word_id)
    \/ \E total \in 0..MaxTotal :
          \E mastered \in 0..total :
             \E in_progress \in 0..Min(total - mastered, MaxInProgress) :
                CallStatsReturn(MainThread, total, mastered, in_progress)
    \/ FunctionReturn(MainThread)

SpecFunctions == Init /\ [][NextFunctions]_vars

\* The state after init_tables on a fresh database, before the words are
\* populated
InitPopulate ==
    /\ words = <<>>
    /\ user_word_progress = <<>>
    /\ session_state = [u \in UserKeys |-> <<>>]
    /\ clock = 0
    /\ backend \in {"remote", "local"}
    /\ th = [t \in Threads |-> Idle]
    /\ call_history = [p \in Learners \X WordIds |-> [calls |-> 0, run |-> 0]]

\* populate_words_from_json() runs at a start of the program that finds the
\* directory mw_data_dir
CallPopulate(t, mw_data_dir) ==
    /\ th[t].pc = "idle"
    /\ LET call == populate_words_from_json(mw_data_dir, words)
       IN  /\ words' = call.words
           /\ th' = [th EXCEPT ![t] =
                        [pc |-> "returned", op |-> "populate_words_from_json",
                         mw_data_dir |-> mw_data_dir,
                         result |-> <<call.returned>>, raised |-> FALSE]]
    /\ UNCHANGED <<user_word_progress, session_state, clock, backend, call_history>>

\* Starts of the program, each populating the words table
NextPopulate ==
    \/ \E mw_data_dir \in MwDataDirs : CallPopulate(MainThread, mw_data_dir)
    \/ FunctionReturn(MainThread)

SpecPopulate == InitPopulate /\ [][NextPopulate]_vars

-----------------------------------------------------------------------------
(* Properties of update_progress, checked under SpecProgress *)

\* The rows of (user_id, word_id) in the table now and after the step
RowsNow(user_id, word_id) == SelectProgress(user_word_progress, user_id, word_id)
RowsNext(user_id, word_id) == SelectProgress(user_word_progress', user_id, word_id)

Counters(r) ==
    <<r.times_attempted, r.times_correct, r.times_incorrect,
      r.current_streak, r.mastery_level>>

\* Thread t's update_progress returns in this step
Returns(t) == th[t].pc = "write" /\ th'[t].pc # "write"

\* C1: the mastery level of every progress row is in 0..5, after any
\* sequence of update_progress calls.
C1_MasteryInRange ==
    \A i \in DOMAIN user_word_progress :
        user_word_progress[i].mastery_level \in 0..5

\* The cap was hit: six correct answers, mastery level 5
C1_Witness ==
    \E i \in DOMAIN user_word_progress :
        /\ user_word_progress[i].times_correct >= 6
        /\ user_word_progress[i].mastery_level = 5

\* C2: a call applied to counters (a, c, i, s, m) leaves
\* (a+1, c+1, i, s+1, min(5, m+1)) when correct and
\* (a+1, c, i+1, 0, max(0, m-1)) when not; a missing row counts as
\* (0, 0, 0, 0, 0).
C2_Step(k, correct) ==
    IF correct
    THEN <<k[1] + 1, k[2] + 1, k[3], k[4] + 1, Min(5, k[5] + 1)>>
    ELSE <<k[1] + 1, k[2], k[3] + 1, 0, Max(0, k[5] - 1)>>

C2_UpdateStep ==
    [][\A t \in Threads :
         Returns(t) =>
           LET l == th[t]
               before == RowsNow(l.user_id, l.word_id)
               after == RowsNext(l.user_id, l.word_id)
               k == IF before = <<>> THEN <<0, 0, 0, 0, 0>> ELSE Counters(before[1])
           IN  /\ after # <<>>
               /\ Counters(after[1]) = C2_Step(k, l.correct)]_vars

\* Two correct answers, then an incorrect one
C2_Witness ==
    \E i \in DOMAIN user_word_progress :
        Counters(user_word_progress[i]) = <<3, 2, 1, 0, 1>>

\* C3: right after a call with correct = false the streak is 0, and after N
\* consecutive calls with correct = true that follow the row's creation or
\* an incorrect answer the streak is N, beyond 5 too.
C3_Streak ==
    /\ [](\A i \in DOMAIN user_word_progress :
            LET r == user_word_progress[i]
            IN  r.current_streak = call_history[<<r.user_id, r.word_id>>].run)
    /\ [][\A t \in Threads :
            (Returns(t) /\ ~th[t].correct) =>
              /\ RowsNext(th[t].user_id, th[t].word_id) # <<>>
              /\ RowsNext(th[t].user_id, th[t].word_id)[1].current_streak = 0]_vars

\* Six consecutive correct answers: streak 6 at mastery level 5
C3_Witness ==
    \E i \in DOMAIN user_word_progress :
        /\ user_word_progress[i].current_streak = 6
        /\ user_word_progress[i].mastery_level = 5

\* C4: after a call made at time now the row has last_attempted_at = now and
\* next_review_at = now + interval(m'), m' the mastery level after the
\* update, with the intervals 5 minutes, 1 hour, 6 hours, 1 day, 3 days and
\* 1 week for the levels 0..5.
C4_Interval ==
    (0 :> 5) @@ (1 :> 60) @@ (2 :> 360) @@ (3 :> 1440) @@ (4 :> 4320) @@ (5 :> 10080)

C4_ReviewTime ==
    [][\A t \in Threads :
         Returns(t) =>
           LET l == th[t]
               after == RowsNext(l.user_id, l.word_id)
           IN  /\ after # <<>>
               /\ after[1].mastery_level \in DOMAIN C4_Interval
               /\ after[1].last_attempted_at = l.now
               /\ after[1].next_review_at =
                    l.now + C4_Interval[after[1].mastery_level]]_vars

\* A row first attempted at 0 and attempted again five minutes later, now at
\* mastery level 2
C4_Witness ==
    \E i \in DOMAIN user_word_progress :
        /\ user_word_progress[i].first_attempted_at = 0
        /\ user_word_progress[i].last_attempted_at = 5
        /\ user_word_progress[i].mastery_level = 2
        /\ user_word_progress[i].next_review_at = 365

\* C5: the interval is strictly increasing over the levels 0..5, so of two
\* rows last attempted at the same instant the one at the higher mastery
\* level has the strictly later next_review_at.
C5_IntervalIncreasing ==
    /\ \A m \in 0..4 : IntervalGet(m) < IntervalGet(m + 1)
    /\ \A i, j \in DOMAIN user_word_progress :
          LET r == user_word_progress[i]
              q == user_word_progress[j]
          IN  (r.last_attempted_at = q.last_attempted_at
               /\ r.mastery_level < q.mastery_level)
              => r.next_review_at < q.next_review_at

\* Two rows attempted at the same instant, at the mastery levels 1 and 2
C5_Witness ==
    \E i, j \in DOMAIN user_word_progress :
        /\ user_word_progress[i].last_attempted_at = user_word_progress[j].last_attempted_at
        /\ user_word_progress[i].mastery_level = 1
        /\ user_word_progress[j].mastery_level = 2

\* C6: the table holds exactly one row for each (learner, word) attempted at
\* least once and none for the others; a row, once inserted, stays: the
\* later attempts update it and nothing deletes it.
C6_OneRowPerPair ==
    /\ [](\A p \in Learners \X WordIds :
            Len(RowsNow(p[1], p[2])) = IF call_history[p].calls > 0 THEN 1 ELSE 0)
    /\ [][\A i \in DOMAIN user_word_progress :
            /\ i \in DOMAIN user_word_progress'
            /\ user_word_progress'[i].id = user_word_progress[i].id
            /\ user_word_progress'[i].user_id = user_word_progress[i].user_id
            /\ user_word_progress'[i].word_id = user_word_progress[i].word_id
            /\ user_word_progress'[i].first_attempted_at =
                 user_word_progress[i].first_attempted_at]_vars

\* Two rows, one of them attempted three times, and a pair never attempted
C6_Witness ==
    /\ Len(user_word_progress) = 2
    /\ user_word_progress[1].times_attempted = 3
    /\ \E p \in Learners \X DrilledWords : call_history[p].calls = 0

\* The call that returns in this step repeats the call made last for the
\* same learner and word
RepeatsLastCall(t) ==
    /\ Returns(t)
    /\ call_history[<<th[t].user_id, th[t].word_id>>].calls > 0
    /\ th[t].correct = (call_history[<<th[t].user_id, th[t].word_id>>].run > 0)

\* C7 as stated: update_progress is idempotent, the same call made a second
\* time leaves the counters, the streak and the mastery level as they were
\* after the first.
C7_Idempotent ==
    [][\A t \in Threads :
         RepeatsLastCall(t) =>
           /\ RowsNext(th[t].user_id, th[t].word_id) # <<>>
           /\ Counters(RowsNext(th[t].user_id, th[t].word_id)[1])
                = Counters(RowsNow(th[t].user_id, th[t].word_id)[1])]_vars

\* C7 amended: update_progress is an upsert and is not idempotent.  The same
\* call made a second time updates the one row of the pair and inserts none,
\* counts one more attempt (and one more correct or incorrect answer), and
\* leaves the mastery level as it was only at the bounds (5 for a correct
\* answer, 0 for an incorrect one); the streak grows on a correct answer and
\* stays 0 on an incorrect one.
C7_RepeatedCall ==
    [][\A t \in Threads :
         RepeatsLastCall(t) =>
           LET l == th[t]
               before == RowsNow(l.user_id, l.word_id)
               after == RowsNext(l.user_id, l.word_id)
           IN  /\ Len(before) = 1
               /\ Len(after) = 1
               /\ after[1].id = before[1].id
               /\ after[1].times_attempted = before[1].times_attempted + 1
               /\ after[1].times_correct =
                    before[1].times_correct + (IF l.correct THEN 1 ELSE 0)
               /\ after[1].times_incorrect =
                    before[1].times_incorrect + (IF l.correct THEN 0 ELSE 1)
               /\ after[1].current_streak =
                    (IF l.correct THEN before[1].current_streak + 1 ELSE 0)
               /\ (after[1].mastery_level = before[1].mastery_level)
                    <=> (before[1].mastery_level = (IF l.correct THEN 5 ELSE 0))
               /\ after[1].mastery_level =
                    (IF l.correct THEN Min(5, before[1].mastery_level + 1)
                     ELSE Max(0, before[1].mastery_level - 1))]_vars

\* The same incorrect answer given twice to a fresh word: two attempts
\* counted, mastery level still 0
C7_Witness ==
    \E i \in DOMAIN user_word_progress :
        Counters(user_word_progress[i]) = <<2, 0, 2, 0, 0>>

-----------------------------------------------------------------------------
(* Overlapping calls of update_progress, checked under SpecConc *)

\* C8: the lookup and the write of update_progress are not isolated.  When a
\* call writes after the row it read was changed by another call (both read
\* before either wrote), it writes what follows from the row it read: the
\* attempts grow by one over the row read, not over the row in the table
\* (after two such calls by 1, not 2), the streak and mastery level the
\* other call wrote are overwritten, and the row counts fewer attempts than
\* calls were made.
C8_LostUpdate ==
    [][\A t \in Threads :
         (/\ Returns(t)
          /\ th[t].result # <<>>
          /\ Counters(RowsNow(th[t].user_id, th[t].word_id)[1])
               # Counters(th[t].result[1]))
         =>
           LET l == th[t]
               after == RowsNext(l.user_id, l.word_id)[1]
           IN  /\ Counters(after) = C2_Step(Counters(l.result[1]), l.correct)
               /\ (RowsNow(l.user_id, l.word_id)[1].times_attempted
                     = l.result[1].times_attempted + 1)
                    => after.times_attempted
                         = RowsNow(l.user_id, l.word_id)[1].times_attempted
               /\ after.times_attempted
                    < call_history'[<<l.user_id, l.word_id>>].calls]_vars

\* Three calls were made for a pair, two of them overlapping, and its row
\* counts two attempts
C8_Witness ==
    /\ AllIdle
    /\ \E i \in DOMAIN user_word_progress :
          LET r == user_word_progress[i]
          IN  /\ r.times_attempted = 2
              /\ call_history[<<r.user_id, r.word_id>>].calls = 3

-----------------------------------------------------------------------------
(* Properties of the request handlers, checked under Spec *)

\* The progress rows of a learner; "guest" has none
RecordsOf(store, user) ==
    IF user \in Registered
    THEN SelectSeq(store, LAMBDA r : r.user_id = IntOf(user))
    ELSE <<>>

\* This step is a step of a request of `user`.  The conjuncts on the primed
\* variables follow from the handler that comes after them (the level is the
\* one the session ends with, the word_id and the learner are the ones the
\* thread carries) and are put first to be evaluated first.
StepFor(user) ==
    \E t \in Threads :
        \/ set_user(t, user)
        \/ \E level \in Levels :
              /\ session_state'[user] # <<>>
              /\ session_state'[user][1].difficulty = level
              /\ set_difficulty(t, user, level)
        \/ toggle_hint(t, user)
        \/ \E word_id \in WordIds :
              /\ th'[t].user = user
              /\ th'[t].word_id = word_id
              /\ \E answer \in Answers : check_answer(t, user, word_id, answer)
        \/ /\ th[t].op = "check_answer"
           /\ th[t].user = user
           /\ check_answer_write(t) \/ check_answer_session(t)

-----------------------------------------------------------------------------
(* Properties of get_next_word, checked under SpecProgress *)

\* C10: whenever the level has a primary word, get_next_word(learner, level)
\* returns a word, and every word it can return is primary and of that
\* level, whatever the progress table holds and whichever branch is taken.
C10_NextWordPrimaryOfLevel ==
    \A u \in Learners, level \in Levels :
        PrimaryWords(level) # <<>> =>
          /\ get_next_word(user_word_progress, u, level, clock) # {}
          /\ \A w \in get_next_word(user_word_progress, u, level, clock) :
                w.is_primary /\ w.difficulty_level = level

\* At level 1 one learner has a due word and a new word (both branches of
\* the 0.7 draw return a word), the other a row that is not due yet
C10_Witness ==
    \E u, v \in Learners :
        /\ DueWords(PrimaryWords(1), user_word_progress, u, clock) # <<>>
        /\ NewWords(PrimaryWords(1), user_word_progress, u) # <<>>
        /\ DueWords(PrimaryWords(1), user_word_progress, v, clock) = <<>>
        /\ Len(NewWords(PrimaryWords(1), user_word_progress, v)) = 1

-----------------------------------------------------------------------------
(* Properties of get_next_word's pools, checked under SpecReview *)

\* The primary words of the level the learner has no row for
C11_New(u, level) ==
    {w \in Range(PrimaryWords(level)) :
        \A i \in DOMAIN user_word_progress :
            ~(user_word_progress[i].user_id = u /\ user_word_progress[i].word_id = w.id)}

\* The primary words of the level the learner has a row for whose review
\* time has come
C11_Due(u, level) ==
    {w \in Range(PrimaryWords(level)) :
        \E i \in DOMAIN user_word_progress :
            /\ user_word_progress[i].user_id = u
            /\ user_word_progress[i].word_id = w.id
            /\ user_word_progress[i].next_review_at <= clock}

\* C11: for a registered learner and a level with a primary word,
\* get_next_word returns a word (a missing row makes the word new, it never
\* raises); the word is due or new unless there is neither; without due
\* words and with a new word it is new (so for a learner without rows it is
\* new); without new words and with a due word it is due; with neither it is
\* any primary word of the level; with both, both kinds can be returned.
C11_SelectionOrder ==
    \A u \in Learners, level \in Levels :
        LET all == Range(PrimaryWords(level))
            new == C11_New(u, level)
            due == C11_Due(u, level)
            got == get_next_word(user_word_progress, u, level, clock)
        IN  all # {} =>
              /\ got # {}
              /\ (due # {} \/ new # {}) => got \subseteq (due \cup new)
              /\ (due = {} /\ new # {}) => got = new
              /\ (new = {} /\ due # {}) => got = due
              /\ (due = {} /\ new = {}) => got = all
              /\ (due # {} /\ new # {}) => got = due \cup new

\* A learner with a row for every word of level 1, one of them due and one
\* not: only the due word can be returned
C11_Witness ==
    \E u \in Learners :
        /\ C11_New(u, 1) = {}
        /\ C11_Due(u, 1) # {}
        /\ C11_Due(u, 1) # Range(PrimaryWords(1))

\* The number of entries of `pool` that are the word w
C12_Count(pool, w) == Cardinality({i \in DOMAIN pool : pool[i] = w})

\* C12: the due pool holds each primary word of the level whose row has
\* next_review_at <= now exactly 10 - mastery_level times, between 5 and 10
\* times, and no other entry: none for a word without a row or with a later
\* review time; a due word of lower mastery has at least as many entries as
\* one of higher mastery.
C12_DuePoolWeights ==
    \A u \in Learners, level \in Levels :
        LET all == PrimaryWords(level)
            pool == DueWords(all, user_word_progress, u, clock)
        IN  /\ Range(pool) \subseteq Range(all)
            /\ \A w \in Range(all) :
                  LET rows == SelectProgress(user_word_progress, u, w.id)
                  IN  IF rows # <<>> /\ rows[1].next_review_at <= clock
                      THEN /\ C12_Count(pool, w) = 10 - rows[1].mastery_level
                           /\ C12_Count(pool, w) \in 5..10
                      ELSE C12_Count(pool, w) = 0
            /\ \A w, x \in C11_Due(u, level) :
                  SelectProgress(user_word_progress, u, w.id)[1].mastery_level
                    < SelectProgress(user_word_progress, u, x.id)[1].mastery_level
                  => C12_Count(pool, w) >= C12_Count(pool, x)

\* Two due words of level 1 at the mastery levels 0 and 1: a pool of 10 + 9
\* entries
C12_Witness ==
    \E u \in Learners :
        LET pool == DueWords(PrimaryWords(1), user_word_progress, u, clock)
        IN  /\ Len(pool) = 19
            /\ \E w, x \in Range(pool) :
                  C12_Count(pool, w) = 10 /\ C12_Count(pool, x) = 9

-----------------------------------------------------------------------------
(* Properties of the word selection of the handlers, checked under Spec *)

\* C13: for a level without primary words the selection returns no word,
\* for a registered learner (get_next_word) and for "guest" alike: no word
\* of another level, no alternate, no default.  A session on such a level
\* never holds a current word; a step that leaves a session changed on such
\* a level ends with the error raised to the caller of the handler; and a
\* step that raises leaves the progress table as it was.
C13_EmptyLevelRaises ==
    /\ [](\A level \in Levels :
            PrimaryWords(level) = <<>> =>
              /\ \A u \in UserKeys : NextWordChoices(u, level) = {}
              /\ \A u \in Learners :
                    get_next_word(user_word_progress, u, level, clock) = {}
              /\ \A u \in UserKeys :
                    (session_state[u] # <<>> /\ session_state[u][1].difficulty = level)
                    => session_state[u][1].current_word = <<>>)
    /\ [][/\ \A u \in UserKeys :
              (/\ session_state'[u] # session_state[u]
               /\ PrimaryWords(session_state'[u][1].difficulty) = <<>>)
              => \E t \in Threads : th'[t].pc = "idle" /\ th'[t].raised
          /\ \A t \in Threads :
              (th'[t].raised /\ th'[t] # th[t])
              => user_word_progress' = user_word_progress]_vars

\* A learner with a progress row has moved to the level without words: the
\* request raised and the session holds no word
C13_Witness ==
    \E t \in Threads, u \in Registered :
        /\ th[t].raised
        /\ RecordsOf(user_word_progress, u) # <<>>
        /\ session_state[u] # <<>>
        /\ PrimaryWords(session_state[u][1].difficulty) = <<>>
        /\ session_state[u][1].current_word = <<>>

\* C14: for "guest" the progress table is not used.  The words a guest
\* session can be given are all the primary words of its level, whatever
\* the table holds, and a step of a check_answer request of "guest", with a
\* correct or an incorrect answer, never enters update_progress and leaves
\* the table as it was: no row is inserted and none is changed.
C14_GuestSkipsProgress ==
    /\ [](\A level \in Levels :
            NextWordChoices("guest", level)
              = {words[i] : i \in {j \in DOMAIN words :
                                     /\ words[j].is_primary
                                     /\ words[j].difficulty_level = level}})
    /\ [][\A t \in Threads :
            (/\ th'[t] # th[t]
             /\ \/ th[t].op = "check_answer" /\ th[t].user = "guest"
                \/ th'[t].op = "check_answer" /\ th'[t].user = "guest")
            => /\ th'[t].pc # "write"
               /\ user_word_progress' = user_word_progress]_vars

\* "guest" has given a correct answer and is about to get the next word,
\* while the table holds a row of a registered learner
C14_Witness ==
    \E t \in Threads :
        /\ th[t].pc = "session"
        /\ th[t].op = "check_answer"
        /\ th[t].user = "guest"
        /\ th[t].correct
        /\ user_word_progress # <<>>

-----------------------------------------------------------------------------
(* Properties of jumble_word, checked under SpecFunctions *)

\* C15 as stated: for every word of more than one letter jumble_word returns
\* a string that differs from the word, on every path, the swap of the first
\* two letters included, also when these two letters are equal.
C15_JumbleDiffers ==
    \A t \in Threads :
        (/\ th[t].op = "jumble_word"
         /\ th[t].pc = "returned"
         /\ Len(th[t].word) > 1)
        => th[t].result[1] # th[t].word

\* The strings a and b have the same letters, each as many times
C16_SameLetters(a, b) ==
    /\ Len(a) = Len(b)
    /\ \A c \in Letters :
          Cardinality({i \in DOMAIN a : a[i] = c})
            = Cardinality({i \in DOMAIN b : b[i] = c})

\* C16: what jumble_word returns has the letters of the word, each as many
\* times, and its length, on every path, the swap included; the loop makes
\* at most 100 shuffles; a word of 0 or 1 letters is returned as it is,
\* without a shuffle.  What the loop returns is one of the outcomes the
\* handlers' jumble_word(word) allows.
C16_JumblePermutes ==
    \A t \in Threads :
        th[t].op = "jumble_word" =>
          /\ th[t].attempts \in 0..ShuffleAttempts
          /\ th[t].jumbled # <<>> => C16_SameLetters(th[t].jumbled[1], th[t].word)
          /\ th[t].pc = "returned" =>
                /\ C16_SameLetters(th[t].result[1], th[t].word)
                /\ th[t].result[1] \in jumble_word(th[t].word)
                /\ Len(th[t].word) <= 1 =>
                      th[t].result[1] = th[t].word /\ th[t].attempts = 0

\* All 100 shuffles reproduced a word of two different first letters: the
\* swap was returned
C16_Witness ==
    \E t \in Threads :
        /\ th[t].op = "jumble_word"
        /\ th[t].pc = "returned"
        /\ th[t].attempts = ShuffleAttempts
        /\ th[t].jumbled = <<th[t].word>>
        /\ th[t].word[1] # th[t].word[2]
        /\ th[t].result = <<SwapFirstTwo(th[t].word)>>

-----------------------------------------------------------------------------
(* Properties of check_answer_against_alternates, checked under
   SpecFunctions *)

\* Thread t holds a call of check_answer_against_alternates
C17_Checked(t) == th[t].op = "check_answer_against_alternates"

\* The rows of words with the id word_id
C17_Rows(word_id) == {words[i] : i \in {j \in DOMAIN words : words[j].id = word_id}}

\* The answer `s` is the lower-cased spelling of the word w, or of its
\* primary word when w is an alternate, or of an alternate of w when w is
\* primary
C17_Accepted(s, w) ==
    \/ s = lower(w.word)
    \/ /\ ~w.is_primary
       /\ \E p \in Range(words) :
             p.is_primary /\ p.word = w.primary_word /\ s = lower(p.word)
    \/ /\ w.is_primary
       /\ \E a \in Range(words) :
             ~a.is_primary /\ a.primary_word = w.word /\ s = lower(a.word)

\* C17: for a lower-case answer and the id of a word, the call returns true
\* exactly when the answer is the lower-cased spelling of the word, of its
\* primary word (the word being an alternate) or of one of its alternates
\* (the word being primary); an alternate is accepted for the primary
\* word's id and is not accepted for the id of another alternate.
C17_AnswerMatches ==
    \A t \in Threads :
        (C17_Checked(t) /\ th[t].answer = lower(th[t].answer)) =>
          \A w \in C17_Rows(th[t].word_id) :
              /\ ~th[t].raised
              /\ th[t].result = <<C17_Accepted(th[t].answer, w)>>

\* An alternate's spelling was checked against the id of another alternate
\* of the same primary word and was not accepted
C17_Witness ==
    \E t \in Threads :
        /\ C17_Checked(t)
        /\ \E w \in C17_Rows(th[t].word_id), a \in Range(words) :
              /\ ~w.is_primary
              /\ ~a.is_primary
              /\ a.primary_word = w.primary_word
              /\ a # w
              /\ th[t].answer = lower(a.word)
        /\ th[t].result = <<FALSE>>

\* C18 as stated: the answer is lower-cased before it is compared, so the
\* call returns for every answer what it returns for the lower-cased
\* answer.
C18_CaseInsensitive ==
    \A t \in Threads :
        (C17_Checked(t) /\ C17_Rows(th[t].word_id) # {}) =>
          th[t].result =
            <<check_answer_against_alternates(lower(th[t].answer), th[t].word_id)>>

\* C19 as stated: the call returns a boolean for every answer and every
\* word_id, an id without a row included, and never raises.
C19_NeverRaises ==
    \A t \in Threads :
        C17_Checked(t) => (~th[t].raised /\ th[t].result \in {<<TRUE>>, <<FALSE>>})

-----------------------------------------------------------------------------
(* Properties of get_user_stats, checked under SpecProgress *)

\* The primary words of the level whose row for learner u has a mastery
\* level in `levels`
C20_WordsAt(u, level, levels) ==
    {w \in Range(words) :
        /\ w.is_primary
        /\ w.difficulty_level = level
        /\ \E i \in DOMAIN user_word_progress :
              /\ user_word_progress[i].user_id = u
              /\ user_word_progress[i].word_id = w.id
              /\ user_word_progress[i].mastery_level \in levels}

\* The primary words of the level learner u has no row for
C20_WordsWithoutRow(u, level) ==
    {w \in Range(words) :
        /\ w.is_primary
        /\ w.difficulty_level = level
        /\ \A i \in DOMAIN user_word_progress :
              ~(user_word_progress[i].user_id = u /\ user_word_progress[i].word_id = w.id)}

\* C20: get_user_stats(learner, level) counts the primary words of the
\* level and the learner's own rows only: total is the number of primary
\* words of the level, mastered the number of them with a row at mastery 5
\* or more, in_progress the number with a row at mastery 1..4, not_started
\* the number of the others (no row, or a row at mastery 0), and the three
\* add up to total.
C20_StatsCounts ==
    \A u \in Learners, level \in Levels :
        LET stats == get_user_stats(user_word_progress, u, level)
        IN  /\ stats.total =
                  Cardinality({w \in Range(words) :
                                 w.is_primary /\ w.difficulty_level = level})
            /\ stats.mastered = Cardinality(C20_WordsAt(u, level, 5..10))
            /\ stats.in_progress = Cardinality(C20_WordsAt(u, level, 1..4))
            /\ stats.not_started =
                  Cardinality(C20_WordsAt(u, level, {0})
                              \cup C20_WordsWithoutRow(u, level))
            /\ stats.mastered + stats.in_progress + stats.not_started = stats.total

\* One learner has mastered a word of level 1 and has another in progress;
\* the other learner has started none
C20_Witness ==
    \E u, v \in Learners :
        /\ get_user_stats(user_word_progress, u, 1).mastered = 1
        /\ get_user_stats(user_word_progress, u, 1).in_progress = 1
        /\ get_user_stats(user_word_progress, v, 1).not_started = 2

-----------------------------------------------------------------------------
(* Properties of the percentages of get_user_stats, checked under SpecFunctions *)

\* C21: mastery_pct = floor(100 * mastered / total) and progress_pct =
\* floor(100 * (mastered + in_progress) / total) for every total > 0, both
\* are 0 for total = 0, and 0 <= mastery_pct <= progress_pct <= 100
C21_TruncatedRatios ==
    \A t \in Threads :
        (th[t].pc = "returned" /\ th[t].op = "get_user_stats") =>
        LET stats == th[t].result[1]
        IN  /\ stats.total > 0 =>
                /\ stats.mastery_pct = (100 * stats.mastered) \div stats.total
                /\ stats.progress_pct =
                       (100 * (stats.mastered + stats.in_progress)) \div stats.total
            /\ stats.total = 0 => stats.mastery_pct = 0 /\ stats.progress_pct = 0
            /\ 0 <= stats.mastery_pct
            /\ stats.mastery_pct <= stats.progress_pct
            /\ stats.progress_pct <= 100

-----------------------------------------------------------------------------
(* Properties of the catalog population, checked under SpecPopulate *)

\* The catalog of a tier, and the number of spellings of its items before
\* item k
C22_Catalog(level) ==
    CASE level = 1 -> ONE_BEE [] level = 2 -> TWO_BEE [] level = 3 -> THREE_BEE

RECURSIVE C22_SpellingsBefore(_, _)
C22_SpellingsBefore(catalog, k) ==
    IF k = 1 THEN 0
    ELSE C22_SpellingsBefore(catalog, k - 1) + Len(catalog[k - 1].spellings)

C22_RowsOf(level) == SelectSeq(words, LAMBDA w : w.difficulty_level = level)

\* C22: in a populated words table every non-primary row's primary_word is
\* the word of a primary row of the same tier; every catalog item has its
\* first spelling as one primary row, followed by one non-primary row per
\* further spelling, and a plain string has its primary row alone
C22_CatalogStructure ==
    words # <<>> =>
    /\ \A i \in DOMAIN words :
          ~words[i].is_primary =>
          \E j \in DOMAIN words :
             /\ words[j].is_primary
             /\ words[j].difficulty_level = words[i].difficulty_level
             /\ words[j].word = words[i].primary_word
    /\ \A level \in Levels :
          LET catalog == C22_Catalog(level)
              rows == C22_RowsOf(level)
          IN  /\ Len(rows) = C22_SpellingsBefore(catalog, Len(catalog) + 1)
              /\ \A k \in DOMAIN catalog :
                    LET at == C22_SpellingsBefore(catalog, k)
                        item == catalog[k]
                    IN  /\ rows[at + 1].is_primary
                        /\ rows[at + 1].word = item.spellings[1]
                        /\ \A n \in 2..Len(item.spellings) :
                              /\ ~rows[at + n].is_primary
                              /\ rows[at + n].word = item.spellings[n]
                              /\ rows[at + n].primary_word = item.spellings[1]
                        /\ ~item.is_list => Len(item.spellings) = 1

\* populate_words_from_json has just filled the table, with a list item of
\* three spellings and a plain string in tier 1
C22_Witness ==
    /\ th[MainThread].pc = "returned"
    /\ th[MainThread].op = "populate_words_from_json"
    /\ Len(words) = 5
    /\ \E i \in DOMAIN words : words[i].primary_word = W_ax /\ words[i].word = W_Aks

\* The row of a word without JSON file has empty definition, functional
\* label, pronunciation, audio URL and base word and is neither marked as
\* having audio nor as an inflection; so has every column whose key is missing
\* in the file
C23_Defaults(row, json_file) ==
    LET missing(key) == IF json_file = <<>> THEN TRUE ELSE json_file[1][key] = <<>>
    IN  /\ missing("shortdef") /\ (missing("is_inflection") \/ missing("base_word"))
            => row.definition = <<>>
        /\ missing("functional_label") => row.functional_label = ""
        /\ missing("pronunciation") => row.pronunciation = ""
        /\ missing("audio_url") => row.audio_url = ""
        /\ missing("base_word") => row.base_word = ""
        /\ missing("has_audio") => row.has_audio = FALSE
        /\ missing("is_inflection") => row.is_inflection = FALSE

\* C23: populate_words_from_json on an empty table returns True and leaves
\* exactly one row per catalog word, whatever JSON files there are, with the
\* defaults in the columns whose data are missing
C23_PopulationNeverBlocked ==
    [][(/\ words = <<>>
        /\ th[MainThread].pc = "idle"
        /\ th'[MainThread].op = "populate_words_from_json")
       => /\ th'[MainThread].result = <<TRUE>>
          /\ \A level \in Levels :
                \A k \in DOMAIN C22_Catalog(level) :
                   \A n \in DOMAIN C22_Catalog(level)[k].spellings :
                      Cardinality({i \in DOMAIN words' :
                          /\ words'[i].difficulty_level = level
                          /\ words'[i].word = C22_Catalog(level)[k].spellings[n]}) = 1
          /\ \A i \in DOMAIN words' :
                C23_Defaults(words'[i],
                             JsonFile(th'[MainThread].mw_data_dir,
                                      [word |-> words'[i].word,
                                       is_primary |-> words'[i].is_primary,
                                       primary_word |-> words'[i].primary_word]))]_vars

-----------------------------------------------------------------------------
(* The two persistence branches of update_progress, checked under SpecProgress *)

\* The counters, streak, mastery level and next review time of a table's rows
C24_Observed(store) ==
    [i \in DOMAIN store |->
        [user_id |-> store[i].user_id,
         word_id |-> store[i].word_id,
         times_attempted |-> store[i].times_attempted,
         times_correct |-> store[i].times_correct,
         times_incorrect |-> store[i].times_incorrect,
         current_streak |-> store[i].current_streak,
         mastery_level |-> store[i].mastery_level,
         next_review_at |-> store[i].next_review_at]]

\* C24: whenever update_progress has looked up the row, the remote and the
\* local branch write the same counters, streak, mastery level and next
\* review time, whether a row was found or this is the first attempt
C24_BranchesAgree ==
    \A t \in Threads :
        (th[t].pc = "write" /\ th[t].op = "update_progress") =>
        C24_Observed(RemoteWrite(user_word_progress, th[t]))
            = C24_Observed(LocalWrite(user_word_progress, th[t]))

\* A first attempt is in flight for one word while another word of the
\* learner has a row with a streak, on a table the local branch wrote
C24_Witness ==
    /\ backend = "local"
    /\ th[MainThread].pc = "write"
    /\ th[MainThread].result = <<>>
    /\ \E i \in DOMAIN user_word_progress :
          /\ user_word_progress[i].user_id = th[MainThread].user_id
          /\ user_word_progress[i].current_streak >= 2

-----------------------------------------------------------------------------
(* Invariants of the progress rows, checked under SpecProgress and SpecConc *)

\* C25: every row has times_attempted = times_correct + times_incorrect,
\* times_attempted >= 1 and current_streak <= times_correct
C25_CountersConsistent ==
    \A i \in DOMAIN user_word_progress :
        LET r == user_word_progress[i]
        IN  /\ r.times_attempted = r.times_correct + r.times_incorrect
            /\ r.times_attempted >= 1
            /\ r.current_streak <= r.times_correct

\* A row with correct and incorrect answers whose streak was reset and has
\* grown again
C25_Witness ==
    \E i \in DOMAIN user_word_progress :
        LET r == user_word_progress[i]
        IN  /\ r.times_incorrect >= 1
            /\ r.current_streak >= 2
            /\ r.current_streak < r.times_correct

\* C26: every row has min(5, current_streak) <= mastery_level <=
\* times_correct; its mastery level, the key of the interval lookup, is one
\* of the levels 0..5 of SRS_INTERVALS, and its review time is the interval of
\* that level after the attempt, never the default of two weeks
C26_MasteryBounds ==
    \A i \in DOMAIN user_word_progress :
        LET r == user_word_progress[i]
        IN  /\ r.mastery_level >= Min(5, r.current_streak)
            /\ r.mastery_level <= r.times_correct
            /\ r.mastery_level \in 0..5
            /\ r.mastery_level \in DOMAIN SRS_INTERVALS
            /\ r.next_review_at - r.last_attempted_at = SRS_INTERVALS[r.mastery_level]
            /\ r.next_review_at - r.last_attempted_at # weeks(2)

\* After four correct answers and an incorrect one: mastery level 3 above
\* the streak 0 and below times_correct 4, reviewed a day later
C26_Witness ==
    \E i \in DOMAIN user_word_progress :
        LET r == user_word_progress[i]
        IN  /\ r.mastery_level = 3
            /\ r.current_streak = 0
            /\ r.times_correct = 4
            /\ r.next_review_at - r.last_attempted_at = days(1)

\* C27: the table never holds more than one row for a (learner, word),
\* however the calls of update_progress interleave
C27_AtMostOneRecord ==
    \A p \in Learners \X WordIds : Len(RowsNow(p[1], p[2])) <= 1

-----------------------------------------------------------------------------
(* Properties of the sessions, checked under Spec *)

\* b has the characters of a, each as many times
C28_Permutation(a, b) ==
    /\ Len(a) = Len(b)
    /\ \A c \in Range(a) \cup Range(b) :
          Cardinality({i \in DOMAIN a : a[i] = c})
            = Cardinality({i \in DOMAIN b : b[i] = c})

\* The session entry holds a session whose current word is a primary word of
\* the session's level, scrambled
C28_SessionReady(entry) ==
    /\ entry # <<>>
    /\ entry[1].current_word # <<>>
    /\ \E i \in DOMAIN words :
          /\ words[i] = entry[1].current_word[1]
          /\ words[i].is_primary
          /\ words[i].difficulty_level = entry[1].difficulty
    /\ C28_Permutation(entry[1].jumbled, entry[1].current_word[1].word)

\* In this step thread t completes a handler of `user` other than
\* set_difficulty, without raising.  The conjuncts on th, on the table and
\* on the other sessions follow from the handlers and are put first.
C28_Completes(t, user) ==
    /\ th'[t].pc = "idle"
    /\ ~th'[t].raised
    /\ \A o \in Threads \ {t} : th'[o] = th[o]
    /\ user_word_progress' = user_word_progress
    /\ \A o \in UserKeys \ {user} : session_state'[o] = session_state[o]
    /\ IF th[t].pc = "session"
       THEN th[t].user = user /\ check_answer_session(t)
       ELSE /\ th[t].pc = "idle"
            /\ set_user(t, user) \/ toggle_hint(t, user)

\* The same for set_difficulty
C28_CompletesSetDifficulty(t, user) ==
    /\ th[t].pc = "idle"
    /\ th'[t].pc = "idle"
    /\ ~th'[t].raised
    /\ \A o \in Threads \ {t} : th'[o] = th[o]
    /\ user_word_progress' = user_word_progress
    /\ \A o \in UserKeys \ {user} : session_state'[o] = session_state[o]
    /\ session_state'[user] # <<>>
    /\ set_difficulty(t, user, session_state'[user][1].difficulty)

\* C28: when a handler (index/set_user, set_difficulty, toggle_hint,
\* check_answer) completes for a learner in a level that has words, the
\* learner has a session whose current word is a primary word of the
\* session's level and whose scrambled letters are a permutation of the
\* word; a session that was absent is created with difficulty 1 (which
\* set_difficulty then replaces by the level asked for)
C28_SessionAfterHandler ==
    [][\A t \in Threads, user \in UserKeys :
         /\ C28_Completes(t, user) =>
               /\ C28_SessionReady(session_state'[user])
               /\ session_state[user] = <<>> =>
                     session_state'[user][1].difficulty = 1
         /\ C28_CompletesSetDifficulty(t, user) =>
               /\ C28_SessionReady(session_state'[user])
               /\ get_session(session_state, user)[user][1].difficulty
                     = IF session_state[user] = <<>> THEN 1
                       ELSE session_state[user][1].difficulty]_vars

\* One learner drills level 2 and is shown "be"; another one, whose session
\* was created at level 1, is shown "ax" scrambled
C28_Witness ==
    \E u, v \in UserKeys :
        /\ u # v
        /\ C28_SessionReady(session_state[u])
        /\ session_state[u][1].difficulty = 2
        /\ session_state[u][1].current_word[1].word = W_be
        /\ C28_SessionReady(session_state[v])
        /\ session_state[v][1].difficulty = 1
        /\ session_state[v][1].current_word[1].word = W_ax
        /\ session_state[v][1].jumbled = <<"x", "a">>

-----------------------------------------------------------------------------
(* The order of check_answer's steps, checked under Spec *)

\* C29: a submission of a registered learner goes through update_progress,
\* which counts it once for the submitted word (one row of the word is
\* written with the counters of one attempt, every other row is left), before
\* the session is touched; then an incorrect answer leaves the session, with its current
\* word and scrambled letters, as it is, and a correct answer has a word
\* selected from the progress rows as updated and scrambled anew
C29_CheckAnswerOrder ==
    [][\A t \in Threads :
         /\ (th[t].pc = "idle" /\ th'[t].pc # "idle") =>
               /\ (th'[t].pc = "write") = (th'[t].user # "guest")
               /\ user_word_progress' = user_word_progress
               /\ session_state' = session_state
         /\ (th[t].pc # "session" /\ th'[t].pc = "session"
             /\ th'[t].user # "guest") =>
               /\ th[t].pc = "write"
               /\ session_state' = session_state
               /\ \A p \in DOMAIN call_history :
                     call_history'[p].calls =
                        IF p = <<IntOf(th[t].user), th[t].word_id>>
                        THEN call_history[p].calls + 1
                        ELSE call_history[p].calls
               /\ DOMAIN user_word_progress \subseteq DOMAIN user_word_progress'
               /\ \E i \in DOMAIN user_word_progress' :
                     /\ user_word_progress'[i].user_id = IntOf(th[t].user)
                     /\ user_word_progress'[i].word_id = th[t].word_id
                     /\ Counters(user_word_progress'[i])
                           = C2_Step(IF th[t].result = <<>> THEN <<0, 0, 0, 0, 0>>
                                     ELSE Counters(th[t].result[1]),
                                     th[t].correct)
                     /\ \A j \in DOMAIN user_word_progress' \ {i} :
                           /\ j \in DOMAIN user_word_progress
                           /\ user_word_progress'[j] = user_word_progress[j]
         /\ (th[t].pc = "session" /\ th'[t].pc = "idle") =>
               LET user == th[t].user
                   before == session_state[user]
                   after == session_state'[user]
               IN  /\ user_word_progress' = user_word_progress
                   /\ call_history' = call_history
                   /\ (/\ ~th[t].correct
                       /\ before # <<>>
                       /\ (IF before = <<>> THEN FALSE
                           ELSE before[1].current_word # <<>>))
                      => after = before
                   /\ (th[t].correct /\ ~th'[t].raised) =>
                         /\ after[1].current_word # <<>>
                         /\ after[1].current_word[1]
                               \in NextWordChoices(user, after[1].difficulty)
                         /\ after[1].jumbled
                               \in jumble_word(after[1].current_word[1].word)]_vars

\* A registered learner answered "go" correctly: the answer was counted
\* once, and the word selected after it is the one still new, "ax"
C29_Witness ==
    \E u \in Registered :
        /\ AllIdle
        /\ call_history[<<IntOf(u), 1>>] = [calls |-> 1, run |-> 1]
        /\ session_state[u] # <<>>
        /\ session_state[u][1].current_word # <<>>
        /\ session_state[u][1].current_word[1].word = W_ax

-----------------------------------------------------------------------------
(* The time a word comes due, checked under SpecReview *)

\* C30: a word a learner answered last at time t, with mastery level m since,
\* is in the learner's due pool exactly from t + interval(m) on, at least 5
\* minutes after the answer; before that time get_next_word can return it
\* only if the learner has neither a new nor a due word in the level
C30_DueTiming ==
    \A i \in DOMAIN user_word_progress :
        LET r == user_word_progress[i]
            due_at == r.last_attempted_at + C4_Interval[r.mastery_level]
        IN  \A level \in Levels :
               LET all_words == PrimaryWords(level)
                   due_words == DueWords(all_words, user_word_progress, r.user_id, clock)
                   new_words == NewWords(all_words, user_word_progress, r.user_id)
               IN  \A n \in DOMAIN all_words :
                      all_words[n].id = r.word_id =>
                        /\ due_at >= r.last_attempted_at + 5
                        /\ (all_words[n] \in Range(due_words)) = (clock >= due_at)
                        /\ (/\ clock < due_at
                            /\ all_words[n] \in get_next_word(user_word_progress,
                                                   r.user_id, level, clock))
                           => (new_words = <<>> /\ due_words = <<>>)

\* An hour after a learner's answer that left a word at mastery level 1 the
\* word is due, while the learner's other word, at level 2, is not; nothing
\* is new, so only the first can be returned
C30_Witness ==
    /\ clock = hours(1)
    /\ \E i, j \in DOMAIN user_word_progress :
          /\ user_word_progress[i].user_id = user_word_progress[j].user_id
          /\ user_word_progress[i].mastery_level = 1
          /\ user_word_progress[i].last_attempted_at = 0
          /\ user_word_progress[j].mastery_level = 2
          /\ Cardinality(get_next_word(user_word_progress,
                            user_word_progress[i].user_id, 1, clock)) = 1

====
